---- MODULE Spec2Model ----
(***************************************************************************)
(* Model of the routing layer of the gateway:                              *)
(*   - chat_completion, the proxy handler                                  *)
(*       (crates/brightstaff/src/handlers/chat_completions.rs)             *)
(*   - the streaming relay spawned by chat_completion (same file)          *)
(*   - RouterModelV1::generate_request, the budgeted prompt builder        *)
(*       (crates/brightstaff/src/router/router_model_v1.rs)                *)
(* Three specifications share the variables: Spec (the handler),           *)
(* SpecRelay (producer task and client consumer around the channel) and    *)
(* SpecRouter (generate_request applied to bounded conversations).         *)
(***************************************************************************)
EXTENDS Integers, Sequences, FiniteSets, TLC

VARIABLES
    \* ---- chat_completion ------------------------------------------------
    pc,                      \* position of the handler
    request,                 \* the inbound request: size hint, headers, body
    request_headers,         \* let mut request_headers (line 38)
    chat_request_bytes,      \* the collected body (line 40)
    chat_completion_request, \* the decoded body (line 41)
    trace_parent,            \* Option<String> (line 57)
    selected_llm,            \* Option<String>, the routing decision (line 62)
    routeCalls,              \* number of determine_route calls made
    route_result,            \* what determine_route returned (line 62)
    parsed,                  \* serde_json::from_slice has been attempted
    forwarded,               \* requests sent to the provider endpoint
    llm_response,            \* the upstream response (line 94)
    response,                \* what the handler returned to the client
    \* ---- streaming relay ------------------------------------------------
    upstream,                \* the chunks the upstream byte stream will yield
    ending,                  \* how the upstream stream ends: "eof" or "err"
    errAt,                   \* chunks the stream yields before its error
    errYielded,              \* the stream has yielded its error
    pulled,                  \* number of chunks taken from byte_stream
    prodPc,                  \* producer task: "idle", "next", "send", "done"
    item,                    \* the chunk the producer holds between next and send
    chan,                    \* the mpsc channel's queue
    rxOpen,                  \* the receiving end (the client body) is alive
    received,                \* frames the client has received
    streamEnded,             \* the client saw the end of the body stream
    \* ---- generate_request -----------------------------------------------
    messages,                \* the conversation passed to generate_request
    max_token_length,        \* self.max_token_length
    rpc,                     \* "idle", "call", "done"
    selected_messages_list,  \* the messages kept (positions), newest first
    walk_selected,           \* selected_messages_list where the loop ends (line 100)
    conversation,            \* the rendered conversation lines
    \* ---- parse_response -------------------------------------------------
    raw_content,             \* the text passed to parse_response (`content`)
    reference,               \* the text raw_content was written from
    how,                     \* how raw_content was written from `reference`
    route_id,                \* the route identifier a serialized text holds
    ppc,                     \* "idle", "call", "reference", "done"
    parse_result,            \* parse_response(raw_content)
    reference_result         \* parse_response(reference)

handlerVars == <<pc, request, request_headers, chat_request_bytes,
                 chat_completion_request, trace_parent, selected_llm,
                 routeCalls, route_result, parsed, forwarded, llm_response,
                 response>>
relayVars == <<upstream, ending, errAt, errYielded, pulled, prodPc, item, chan, rxOpen,
               received, streamEnded>>
routerVars == <<messages, max_token_length, rpc, selected_messages_list,
                walk_selected, conversation>>
parserVars == <<raw_content, reference, how, route_id, ppc, parse_result,
                reference_result>>
vars == <<handlerVars, relayVars, routerVars, parserVars>>

\* Option<T>
None == [some |-> FALSE]
Some(v) == [some |-> TRUE, val |-> v]

Last(s) == s[Len(s)]

(***************************************************************************)
(* chat_completion                                                         *)
(***************************************************************************)

\* common::consts::ARCH_PROVIDER_HINT_HEADER
ARCH_PROVIDER_HINT_HEADER == "x-arch-llm-provider-hint"
HeaderNames == {"traceparent", ARCH_PROVIDER_HINT_HEADER, "content-type"}

\* The size ceiling of line 31.
MAX_BODY_SIZE == 1024 * 1024
\* u64::MAX (line 30). TLC's integers are 32 bits wide, so the largest of them
\* stands for it: all that line 31 asks of it is to be above the ceiling.
U64_MAX == 2147483647

\* Header values that are not visible ASCII: HeaderValue::to_str fails on them.
OpaqueValues == {"00-trace-<0xff>"}
\* Strings HeaderValue::from_str rejects (control characters).
InvalidHeaderStrings == {"route<CR>one"}

\* HeaderMap::insert: the value replaces every value the name had.
HeaderInsert(h, name, value) == [h EXCEPT ![name] = <<value>>]

\* value.to_str().unwrap_or_default().to_string() (line 60)
ToStrOrDefault(v) == IF v \in OpaqueValues THEN "" ELSE v

\* request_headers.iter().find(|(ty, _)| ty == "traceparent").map(...) (57-60)
FindTraceParent(h) ==
    IF h["traceparent"] = <<>> THEN None
    ELSE Some(ToStrOrDefault(h["traceparent"][1]))

\* request.body().size_hint().upper().unwrap_or(u64::MAX) (line 30)
SizeUpperOrMax(hint) == IF hint.some THEN hint.val ELSE U64_MAX

\* if max > 1024 * 1024 (line 31): a threshold a factor off lets bodies through
TooLargeLoose(max) == max > 1024 * MAX_BODY_SIZE
\* line 31 with >= in place of >
TooLargeInclusive(max) == max >= MAX_BODY_SIZE
TooLarge(max) == max > MAX_BODY_SIZE

\* line 42 with a decoder that takes any bytes for a request
DecodeLenient(bytes) ==
    CASE bytes \in {"{stream:true}", "{ stream : true }"}
                                  -> [ok |-> TRUE, stream |-> TRUE]
      [] OTHER                    -> [ok |-> TRUE, stream |-> FALSE]
\* serde_json::from_slice::<ChatCompletionsRequest>(bytes) (line 42)
DecodeBody(bytes) ==
    CASE bytes \in {"{stream:true}", "{ stream : true }"}
                                  -> [ok |-> TRUE, stream |-> TRUE]
      [] bytes = "{stream:false}" -> [ok |-> TRUE, stream |-> FALSE]
      [] OTHER                    -> [ok |-> FALSE]

\* serde_json::to_string(&chat_completion_request) (line 54, for the log)
SerializeRequest(req) == IF req.stream THEN "{stream:true}" ELSE "{stream:false}"

\* line 97 sending the decoded request encoded again
OutboundBodyReencoded(bytes, req) == SerializeRequest(req)
\* line 97: .body(chat_request_bytes)
OutboundBody(bytes, req) == bytes

\* Response::new(full(msg)) with *status_mut() = status
ErrorResponse(status, msg) ==
    [status |-> status, headers |-> [n \in HeaderNames |-> <<>>], body |-> msg]

\* ---- the inputs ----------------------------------------------------------
SizeHints == {None} \cup {Some(n) : n \in {0, MAX_BODY_SIZE - 1, MAX_BODY_SIZE,
                                          MAX_BODY_SIZE + 1}}
ClientHintValues == {<<>>, <<"client-pick">>, <<"client-pick", "gpt-4o">>}
ClientTraceValues == {<<>>, <<"00-trace-01">>, <<"00-trace-<0xff>">>}
Bodies == {"{stream:true}", "{ stream : true }", "{stream:false}", "not json"}
RequestHeaders ==
    {[n \in HeaderNames |->
        CASE n = ARCH_PROVIDER_HINT_HEADER -> hv
          [] n = "traceparent" -> tv
          [] OTHER -> <<"application/json">>] :
     hv \in ClientHintValues, tv \in ClientTraceValues}
Requests == [size_upper : SizeHints, headers : RequestHeaders, body : Bodies]

\* what determine_route may return: Err, Ok(None), Ok(Some(p))
RouteNames == {"gpt-4o", "claude", "route<CR>one"}
RouteResults == {[ok |-> FALSE]} \cup
                {[ok |-> TRUE, route |-> r] : r \in {None} \cup {Some(p) : p \in RouteNames}}

\* what the provider endpoint may answer
UpstreamStatuses == {200, 404, 429}
UpstreamHeaderSets ==
    {[n \in HeaderNames |-> IF n = "content-type" THEN ct ELSE <<>>] :
     ct \in {<<"text/event-stream">>, <<"a/b", "c/d">>}}
UpstreamResponses == [status : UpstreamStatuses, headers : UpstreamHeaderSets,
                      body : {"upstream body"}]

HandlerIdle ==
    /\ pc = "idle" /\ request = None /\ request_headers = None
    /\ chat_request_bytes = None /\ chat_completion_request = None
    /\ trace_parent = None /\ selected_llm = None /\ routeCalls = 0
    /\ route_result = None
    /\ parsed = FALSE /\ forwarded = <<>> /\ llm_response = None
    /\ response = None
RelayIdle ==
    /\ upstream = <<>> /\ ending = "eof" /\ errAt = 0 /\ errYielded = FALSE
    /\ pulled = 0 /\ prodPc = "idle"
    /\ item = None /\ chan = <<>> /\ rxOpen = FALSE /\ received = <<>>
    /\ streamEnded = FALSE
RouterIdle ==
    /\ messages = <<>> /\ max_token_length = 0 /\ rpc = "idle"
    /\ selected_messages_list = <<>> /\ conversation = <<>>
    /\ walk_selected = <<>>

ParserIdle ==
    /\ raw_content = <<>> /\ reference = <<>> /\ how = "idle" /\ route_id = <<>>
    /\ ppc = "idle" /\ parse_result = None /\ reference_result = None

Init ==
    /\ pc = "start"
    /\ request \in Requests
    /\ request_headers = None
    /\ chat_request_bytes = None /\ chat_completion_request = None
    /\ trace_parent = None /\ selected_llm = None /\ routeCalls = 0
    /\ route_result = None
    /\ parsed = FALSE /\ forwarded = <<>> /\ llm_response = None
    /\ response = None
    /\ RelayIdle
    /\ RouterIdle
    /\ ParserIdle

\* lines 30-38: the size check, then the clone of the headers
SizeCheck ==
    /\ pc = "start"
    /\ LET max == SizeUpperOrMax(request.size_upper) IN
       IF TooLarge(max)
       THEN /\ response' = ErrorResponse(413, "Request body too large")
            /\ pc' = "done"
            /\ UNCHANGED request_headers
       ELSE /\ request_headers' = request.headers
            /\ pc' = "collect"
            /\ UNCHANGED response
    /\ UNCHANGED <<request, chat_request_bytes, chat_completion_request,
                   trace_parent, selected_llm, routeCalls, parsed, forwarded,
                   llm_response>>
    /\ UNCHANGED route_result
    /\ UNCHANGED <<relayVars, routerVars, parserVars>>

\* line 40: request.collect().await? : a read error leaves through `?`
CollectBody ==
    /\ pc = "collect"
    /\ \E readOk \in BOOLEAN :
          IF readOk
          THEN /\ chat_request_bytes' = request.body
               /\ pc' = "decode"
          ELSE /\ pc' = "err"
               /\ UNCHANGED chat_request_bytes
    /\ UNCHANGED <<request, request_headers, chat_completion_request,
                   trace_parent, selected_llm, routeCalls, parsed, forwarded,
                   llm_response, response>>
    /\ UNCHANGED route_result
    /\ UNCHANGED <<relayVars, routerVars, parserVars>>

\* lines 41-60: decode the body, then find the traceparent header
Decode ==
    /\ pc = "decode"
    /\ parsed' = TRUE
    /\ LET d == DecodeBody(chat_request_bytes) IN
       IF d.ok
       THEN /\ chat_completion_request' = d
            /\ trace_parent' = FindTraceParent(request_headers)
            /\ pc' = "route"
            /\ UNCHANGED response
       ELSE /\ response' = ErrorResponse(400, "Failed to parse request body")
            /\ pc' = "done"
            /\ UNCHANGED <<chat_completion_request, trace_parent>>
    /\ UNCHANGED <<request, request_headers, chat_request_bytes, selected_llm,
                   routeCalls, forwarded, llm_response>>
    /\ UNCHANGED route_result
    /\ UNCHANGED <<relayVars, routerVars, parserVars>>

\* lines 62-73 with a default in place of the error: the request goes on
\* with no provider selected
RouteDefaultsOnError ==
    /\ pc = "route"
    /\ routeCalls' = routeCalls + 1
    /\ \E r \in RouteResults :
          /\ route_result' = r
          /\ selected_llm' = (IF r.ok THEN r.route ELSE None)
          /\ pc' = "headers"
    /\ UNCHANGED <<request, request_headers, chat_request_bytes,
                   chat_completion_request, trace_parent, parsed, forwarded,
                   llm_response, response>>
    /\ UNCHANGED <<relayVars, routerVars, parserVars>>

\* lines 62-73: router_service.determine_route(...).await
Route ==
    /\ pc = "route"
    /\ routeCalls' = routeCalls + 1
    /\ \E r \in RouteResults :
          /\ route_result' = r
          /\ IF r.ok
             THEN /\ selected_llm' = r.route
                  /\ pc' = "headers"
                  /\ UNCHANGED response
             ELSE /\ response' = ErrorResponse(500, "Failed to determine route")
                  /\ pc' = "done"
                  /\ UNCHANGED selected_llm
    /\ UNCHANGED <<request, request_headers, chat_request_bytes,
                   chat_completion_request, trace_parent, parsed, forwarded,
                   llm_response>>
    /\ UNCHANGED <<relayVars, routerVars, parserVars>>

\* lines 80-85: re-insert the traceparent value
WithTraceParent(h, tp) ==
    IF tp.some THEN HeaderInsert(h, "traceparent", tp.val) ELSE h

\* lines 87-92: the hint header
WithProviderHint(h, sel) ==
    IF sel.some THEN HeaderInsert(h, ARCH_PROVIDER_HINT_HEADER, sel.val) ELSE h

\* lines 80-92: HeaderValue::from_str(..).unwrap() panics on an invalid string
AugmentHeaders ==
    /\ pc = "headers"
    /\ IF selected_llm.some /\ selected_llm.val \in InvalidHeaderStrings
       THEN /\ pc' = "panic"
            /\ request_headers' = WithTraceParent(request_headers, trace_parent)
       ELSE /\ request_headers' =
                  WithProviderHint(WithTraceParent(request_headers, trace_parent),
                                   selected_llm)
            /\ pc' = "send"
    /\ UNCHANGED <<request, chat_request_bytes, chat_completion_request,
                   trace_parent, selected_llm, routeCalls, parsed, forwarded,
                   llm_response, response>>
    /\ UNCHANGED route_result
    /\ UNCHANGED <<relayVars, routerVars, parserVars>>

\* lines 94-108: reqwest::Client::new().post(endpoint).headers(..).body(..).send()
Forward ==
    /\ pc = "send"
    /\ forwarded' = Append(forwarded, [target |-> "llm_provider_endpoint",
                                       headers |-> request_headers,
                                       body |-> OutboundBody(chat_request_bytes,
                                                             chat_completion_request)])
    /\ \E sendOk \in BOOLEAN :
          IF sendOk
          THEN /\ \E res \in UpstreamResponses : llm_response' = res
               /\ pc' = "relay"
               /\ UNCHANGED response
          ELSE /\ response' = ErrorResponse(500, "Failed to send request")
               /\ pc' = "done"
               /\ UNCHANGED llm_response
    /\ UNCHANGED <<request, request_headers, chat_request_bytes,
                   chat_completion_request, trace_parent, selected_llm,
                   routeCalls, parsed>>
    /\ UNCHANGED route_result
    /\ UNCHANGED <<relayVars, routerVars, parserVars>>

\* lines 110-116: every (name, value) of the upstream response is inserted in
\* turn into the builder's map, so the last value of a name is the one left
CopyHeaders(h) ==
    [n \in HeaderNames |-> IF h[n] = <<>> THEN <<>> ELSE <<Last(h[n])>>]

\* line 112: Response::builder() starts at 200 OK and the handler never calls
\* .status(..) on it
BuilderStatus(res) == 200

\* lines 118-154: the streaming branch: channel, spawned task, stream body.
\* response.body(..) fails only on a builder error, which needs a builder
\* method to have failed; none is called, so lines 148-153 are unreachable.
StreamBranch ==
    /\ pc = "relay"
    /\ chat_completion_request.stream
    /\ response' = [status |-> BuilderStatus(llm_response),
                    headers |-> CopyHeaders(llm_response.headers),
                    body |-> "stream"]
    /\ pc' = "done"
    /\ UNCHANGED <<request, request_headers, chat_request_bytes,
                   chat_completion_request, trace_parent, selected_llm,
                   routeCalls, parsed, forwarded, llm_response>>
    /\ UNCHANGED route_result
    /\ UNCHANGED <<relayVars, routerVars, parserVars>>

\* lines 155-175: the buffered branch: llm_response.text().await
BufferBranch ==
    /\ pc = "relay"
    /\ ~chat_completion_request.stream
    /\ \E readOk \in BOOLEAN :
          IF readOk
          THEN response' = [status |-> BuilderStatus(llm_response),
                            headers |-> CopyHeaders(llm_response.headers),
                            body |-> llm_response.body]
          ELSE response' = ErrorResponse(500, "Failed to read response")
    /\ pc' = "done"
    /\ UNCHANGED <<request, request_headers, chat_request_bytes,
                   chat_completion_request, trace_parent, selected_llm,
                   routeCalls, parsed, forwarded, llm_response>>
    /\ UNCHANGED route_result
    /\ UNCHANGED <<relayVars, routerVars, parserVars>>

Next ==
    \/ SizeCheck
    \/ CollectBody
    \/ Decode
    \/ Route
    \/ AugmentHeaders
    \/ Forward
    \/ StreamBranch
    \/ BufferBranch

Spec == Init /\ [][Next]_vars

(***************************************************************************)
(* Claims about chat_completion (specification Spec)                       *)
(***************************************************************************)

DeclaredTooLarge ==
    request.size_upper.some /\ request.size_upper.val > 1048576

\* C1: a request whose declared body size is greater than 1 MiB is answered
\* with status 413, and for it the body is never read or parsed, no routing
\* call is made and nothing is forwarded to the provider.
C1_SizeCeiling ==
    DeclaredTooLarge =>
        /\ pc \in {"start", "done"}
        /\ pc = "done" => response.status = 413
        /\ chat_request_bytes = None
        /\ ~parsed
        /\ routeCalls = 0
        /\ forwarded = <<>>

C1_Witness ==
    /\ DeclaredTooLarge
    /\ request.size_upper.val = 1048577
    /\ pc = "done"
    /\ response.status = 413

\* C2: every forwarded request carries no provider-hint header when routing
\* yielded None, and exactly one, with value p, when routing yielded Some(p),
\* whatever headers the client sent.
C2_HintHeaderExclusive ==
    \A i \in 1..Len(forwarded) :
        forwarded[i].headers[ARCH_PROVIDER_HINT_HEADER] =
            (IF selected_llm.some THEN <<selected_llm.val>> ELSE <<>>)

\* C3: when the upstream provider returned a response and the handler relays
\* it (streaming or buffered), the status returned to the client equals the
\* upstream status.
C3_StatusMirrorsUpstream ==
    (/\ pc = "done"
     /\ llm_response # None
     /\ response.body \in {"stream", llm_response.body})
        => response.status = llm_response.status

(***************************************************************************)
(* The streaming relay (chat_completions.rs lines 118-144): the spawned    *)
(* producer task, the bounded channel and the client reading the body.     *)
(* SpecRelay starts where tokio::spawn (line 123) has just been called.    *)
(***************************************************************************)

\* mpsc::channel::<Bytes>(16) (line 120)
CHANNEL_CAPACITY == 16

\* the longest upstream stream explored
MaxChunks == 18

\* the i-th chunk of an upstream stream, for three kinds of stream: every
\* chunk the same bytes, two alternating chunks, all chunks different
ChunkOf(kind, i) ==
    CASE kind = "same"     -> "data"
      [] kind = "alternate" -> IF i % 2 = 1 THEN "ping" ELSE "pong"
      [] OTHER              -> ToString(i)
UpstreamStreams ==
    {[i \in 1..n |-> ChunkOf(kind, i)] :
        n \in 0..MaxChunks, kind \in {"same", "alternate", "distinct"}}

\* Frame::data(chunk) (line 142)
FrameData(chunk) == [frame |-> "data", data |-> chunk]

\* tx.send(item): a send that never waits and drops the chunk on a full queue
ChanTrySend(q, x) ==
    IF Len(q) < CHANNEL_CAPACITY
    THEN [accepted |-> TRUE, queue |-> Append(q, x)]
    ELSE [accepted |-> TRUE, queue |-> q]
\* tx.send(item): a channel that takes every chunk at once
ChanSendUnbounded(q, x) == [accepted |-> TRUE, queue |-> Append(q, x)]
\* tx.send(item).await on an open channel (line 135): the chunk goes to the
\* back of the queue when the queue holds fewer than 16, else the task waits
ChanSend(q, x) ==
    IF Len(q) < CHANNEL_CAPACITY
    THEN [accepted |-> TRUE, queue |-> Append(q, x)]
    ELSE [accepted |-> FALSE]

InitRelay ==
    /\ HandlerIdle
    /\ RouterIdle
    /\ ParserIdle
    /\ upstream \in UpstreamStreams
    /\ ending \in {"eof", "err"}
    /\ errAt \in (IF ending = "err" THEN 0..Len(upstream) ELSE {Len(upstream)})
    /\ errYielded = FALSE
    /\ pulled = 0
    /\ prodPc = "next"
    /\ item = None
    /\ chan = <<>>
    /\ rxOpen = TRUE
    /\ received = <<>>
    /\ streamEnded = FALSE

\* the stream has an error to yield next
ErrorIsNext == ending = "err" /\ pulled = errAt /\ ~errYielded

\* line 126-128: byte_stream.next().await yields Some(Ok(item))
ProducerPull ==
    /\ prodPc = "next"
    /\ pulled < Len(upstream)
    /\ ~ErrorIsNext
    /\ item' = Some(upstream[pulled + 1])
    /\ pulled' = pulled + 1
    /\ prodPc' = "send"
    /\ UNCHANGED <<upstream, ending, errAt, errYielded, chan, rxOpen, received,
                   streamEnded>>
    /\ UNCHANGED <<handlerVars, routerVars, parserVars>>

\* line 126 with the sender outliving the loop: the channel is never closed
ProducerEofKeepsSender ==
    /\ prodPc = "next"
    /\ pulled = Len(upstream)
    /\ ~ErrorIsNext
    /\ prodPc' = "parked"
    /\ UNCHANGED <<upstream, ending, errAt, errYielded, pulled, item, chan,
                   rxOpen, received, streamEnded>>
    /\ UNCHANGED <<handlerVars, routerVars, parserVars>>

\* line 126: next() yields None: the loop ends, the task ends, tx is dropped
ProducerEof ==
    /\ prodPc = "next"
    /\ pulled = Len(upstream)
    /\ ~ErrorIsNext
    /\ prodPc' = "done"
    /\ UNCHANGED <<upstream, ending, errAt, errYielded, pulled, item, chan,
                   rxOpen, received, streamEnded>>
    /\ UNCHANGED <<handlerVars, routerVars, parserVars>>

\* lines 129-132 with `continue` in place of `break`
ProducerUpstreamErrorContinues ==
    /\ prodPc = "next"
    /\ ErrorIsNext
    /\ errYielded' = TRUE
    /\ UNCHANGED <<upstream, ending, errAt, pulled, prodPc, item, chan, rxOpen,
                   received, streamEnded>>
    /\ UNCHANGED <<handlerVars, routerVars, parserVars>>

\* lines 129-132: next() yields Some(Err(e)): warn, break
ProducerUpstreamError ==
    /\ prodPc = "next"
    /\ ErrorIsNext
    /\ errYielded' = TRUE
    /\ prodPc' = "done"
    /\ UNCHANGED <<upstream, ending, errAt, pulled, item, chan, rxOpen,
                   received, streamEnded>>
    /\ UNCHANGED <<handlerVars, routerVars, parserVars>>

\* line 135: tx.send(item).await returns Ok once the queue has room
ProducerSend ==
    /\ prodPc = "send"
    /\ rxOpen
    /\ LET r == ChanSend(chan, item.val) IN
          /\ r.accepted
          /\ chan' = r.queue
    /\ item' = None
    /\ prodPc' = "next"
    /\ UNCHANGED <<upstream, ending, errAt, errYielded, pulled, rxOpen, received, streamEnded>>
    /\ UNCHANGED <<handlerVars, routerVars, parserVars>>

\* lines 135-138 with the failed send ignored: the loop goes on
ProducerSendFailedContinues ==
    /\ prodPc = "send"
    /\ ~rxOpen
    /\ item' = None
    /\ prodPc' = "next"
    /\ UNCHANGED <<upstream, ending, errAt, errYielded, pulled, chan, rxOpen,
                   received, streamEnded>>
    /\ UNCHANGED <<handlerVars, routerVars, parserVars>>

\* lines 135-138: tx.send(item).await returns Err: the receiver is gone
ProducerSendFailed ==
    /\ prodPc = "send"
    /\ ~rxOpen
    /\ item' = None
    /\ prodPc' = "done"
    /\ UNCHANGED <<upstream, ending, errAt, errYielded, pulled, chan, rxOpen, received,
                   streamEnded>>
    /\ UNCHANGED <<handlerVars, routerVars, parserVars>>

\* line 142: the body stream yields the next chunk as a data frame
ClientRecv ==
    /\ rxOpen
    /\ ~streamEnded
    /\ chan # <<>>
    /\ received' = Append(received, FrameData(Head(chan)))
    /\ chan' = Tail(chan)
    /\ UNCHANGED <<upstream, ending, errAt, errYielded, pulled, prodPc, item, rxOpen, streamEnded>>
    /\ UNCHANGED <<handlerVars, routerVars, parserVars>>

\* line 142: the queue is empty and tx is dropped: the body stream ends
ClientEnd ==
    /\ rxOpen
    /\ ~streamEnded
    /\ chan = <<>>
    /\ prodPc = "done"
    /\ streamEnded' = TRUE
    /\ UNCHANGED <<upstream, ending, errAt, errYielded, pulled, prodPc, item, chan, rxOpen,
                   received>>
    /\ UNCHANGED <<handlerVars, routerVars, parserVars>>

\* the client goes away: the body, and with it rx and what it queues, is dropped
ClientDisconnect ==
    /\ rxOpen
    /\ ~streamEnded
    /\ rxOpen' = FALSE
    /\ chan' = <<>>
    /\ UNCHANGED <<upstream, ending, errAt, errYielded, pulled, prodPc, item, received,
                   streamEnded>>
    /\ UNCHANGED <<handlerVars, routerVars, parserVars>>

NextRelay ==
    \/ ProducerPull
    \/ ProducerEof
    \/ ProducerUpstreamError
    \/ ProducerSend
    \/ ProducerSendFailed
    \/ ClientRecv
    \/ ClientEnd
    \/ ClientDisconnect

SpecRelay == InitRelay /\ [][NextRelay]_vars

\* The spawned task is scheduled by the runtime whenever it can run, and the
\* upstream stream goes on yielding until it ends: every step of the producer
\* that stays possible is eventually taken.
ProducerStep ==
    \/ ProducerPull
    \/ ProducerEof
    \/ ProducerUpstreamError
    \/ ProducerSend
    \/ ProducerSendFailed

SpecRelayFair == SpecRelay /\ WF_vars(ProducerStep)

\* A client that keeps reading: the body stream is polled whenever it has a
\* frame to yield or its end to report.
ClientRead ==
    \/ ClientRecv
    \/ ClientEnd

SpecRelayLive == SpecRelay /\ WF_vars(ProducerStep) /\ WF_vars(ClientRead)

(***************************************************************************)
(* Claims about the streaming relay (specification SpecRelay)              *)
(***************************************************************************)

\* frames pulled from upstream and not yet delivered to the client
InFlight == pulled - Len(received)

\* C4: at every moment the frames the client has received are a prefix of
\* the upstream sequence, in order; when the upstream ends without error and
\* the client stays to the end, the client has received the whole sequence.
C4_OrderPreserved ==
    /\ Len(received) <= Len(upstream)
    /\ \A i \in 1..Len(received) : received[i] = FrameData(upstream[i])
    /\ (streamEnded /\ ending = "eof") => Len(received) = Len(upstream)

C4_Witness ==
    /\ streamEnded
    /\ ending = "eof"
    /\ Len(received) > CHANNEL_CAPACITY
    /\ received[1] # received[2]

\* C5 as stated: the number of frames pulled from upstream and not yet
\* delivered to the client never exceeds the channel capacity.
C5_InFlightWithinCapacity ==
    rxOpen => InFlight <= CHANNEL_CAPACITY

\* C5 as amended: the channel never queues more than its capacity, and the
\* frames in flight are those queued plus the single chunk the producer
\* holds while it waits in send, so at most capacity + 1; the producer holds
\* a chunk exactly while it is in send, where it pulls nothing.
C5_InFlightWithinCapacityPlusOne ==
    rxOpen =>
        /\ Len(chan) <= CHANNEL_CAPACITY
        /\ item.some <=> prodPc = "send"
        /\ InFlight = Len(chan) + (IF item.some THEN 1 ELSE 0)
        /\ InFlight <= CHANNEL_CAPACITY + 1

C5_Witness ==
    /\ rxOpen
    /\ Len(chan) = CHANNEL_CAPACITY
    /\ prodPc = "send"
    /\ InFlight = CHANNEL_CAPACITY + 1

(***************************************************************************)
(* RouterModelV1::generate_request (router_model_v1.rs lines 60-158).      *)
(* A message is [role, content], content an Option of its text; the        *)
(* vectors of &Message hold positions in the conversation.                 *)
(***************************************************************************)

\* common::consts::{SYSTEM_ROLE, USER_ROLE}
SYSTEM_ROLE == "system"
USER_ROLE == "user"

\* ARCH_ROUTER_V1_SYSTEM_PROMPT.len(): the bytes of the raw string literal
ARCH_ROUTER_V1_SYSTEM_PROMPT_LEN == 814
TOKEN_LENGTH_DIVISOR == 4

\* the longest conversation explored, and how far above the template's own
\* estimate the explored budgets go
MaxMessages == 3
MaxSlack == 4

\* line 73: a count that leaves the template out
InitialTokenCountZero == 0 \div TOKEN_LENGTH_DIVISOR
\* line 73: let mut token_count = ARCH_ROUTER_V1_SYSTEM_PROMPT.len() / 4
InitialTokenCount == ARCH_ROUTER_V1_SYSTEM_PROMPT_LEN \div TOKEN_LENGTH_DIVISOR

\* lines 61-69 without the filter
AllPositions(msgs) == [i \in 1..Len(msgs) |-> i]
\* lines 61-69: messages.iter().filter(|m| m.role != SYSTEM_ROLE).collect()
MessagesVec(msgs) ==
    SelectSeq([i \in 1..Len(msgs) |-> i], LAMBDA i : msgs[i].role # SYSTEM_ROLE)

\* lines 76-80: content.as_ref().unwrap_or(&Text("")).to_string()
ContentToString(content) == IF content.some THEN content.val ELSE ""

\* lines 76-82: the length of the content in bytes, divided by 4
MessageTokenCount(m) == Len(ContentToString(m.content)) \div TOKEN_LENGTH_DIVISOR

\* line 92 keeping the message that exceeds the budget whatever its role
KeepAnyRole(m) == TRUE
\* line 92 dropping the message that exceeds the budget whatever its role
KeepNoRole(m) == FALSE
\* line 92: if message.role == USER_ROLE
KeepOnOverflow(m) == m.role = USER_ROLE

\* lines 75-100: the walk over messages_vec.iter().rev(); k is the number of
\* messages still to visit, so messages_vec[k] is the next one
RECURSIVE Walk(_, _, _, _, _)
Walk(msgs, vec, k, token_count, selected) ==
    IF k = 0 THEN selected
    ELSE LET message == msgs[vec[k]]
             count == token_count + MessageTokenCount(message)
         IN IF count > max_token_length
            THEN IF KeepOnOverflow(message)
                 THEN Append(selected, vec[k])
                 ELSE selected
            ELSE Walk(msgs, vec, k - 1, count, Append(selected, vec[k]))

\* line 106 taking the first message
FallbackFirst(vec) == Head(vec)
\* line 106: messages_vec.last()
FallbackMessage(vec) == Last(vec)

\* lines 102-109 without the fallback
WithoutFallback(vec, selected) == selected
\* lines 102-109: if selected_messages_list.is_empty() { push(last) }
WithFallback(vec, selected) ==
    IF selected = <<>> /\ vec # <<>> THEN <<FallbackMessage(vec)>> ELSE selected

\* lines 73-100: the list as the loop leaves it
WalkMessages(msgs) ==
    LET vec == MessagesVec(msgs) IN
    Walk(msgs, vec, Len(vec), InitialTokenCount, <<>>)

\* lines 73-109
SelectMessages(msgs) ==
    WithFallback(MessagesVec(msgs), WalkMessages(msgs))

\* lines 128-130 without .rev()
RenderOrderAsSelected(selected) == selected
\* lines 128-130: selected_messages_list.iter().rev()
RenderOrder(selected) ==
    [i \in 1..Len(selected) |-> selected[Len(selected) + 1 - i]]

\* line 132: serde_json::to_string(&m.content): Option<ContentType>
ContentJson(content) ==
    IF content.some THEN "\"" \o content.val \o "\"" ELSE "null"

\* line 133: format!("{}: {}", m.role, content_json_str)
Line(m) == m.role \o ": " \o ContentJson(m.content)

\* lines 128-135: the lines joined into the {conversation} placeholder
RenderConversation(msgs, selected) ==
    LET order == RenderOrder(selected) IN
    [i \in 1..Len(order) |-> Line(msgs[order[i]])]

\* ---- the inputs ----------------------------------------------------------
Roles == {SYSTEM_ROLE, USER_ROLE, "assistant"}
Contents == {None, Some("abc"), Some("book"), Some("seattle!")}
Messages == [role : Roles, content : Contents]
Conversations == UNION {[1..n -> Messages] : n \in 0..MaxMessages}
Budgets == (InitialTokenCount - 1)..(InitialTokenCount + MaxSlack)

InitRouter ==
    /\ HandlerIdle
    /\ RelayIdle
    /\ ParserIdle
    /\ messages \in Conversations
    /\ max_token_length \in Budgets
    /\ rpc = "call"
    /\ selected_messages_list = <<>>
    /\ walk_selected = <<>>
    /\ conversation = <<>>

GenerateRequest ==
    /\ rpc = "call"
    /\ walk_selected' = WalkMessages(messages)
    /\ selected_messages_list' = SelectMessages(messages)
    /\ conversation' = RenderConversation(messages, selected_messages_list')
    /\ rpc' = "done"
    /\ UNCHANGED <<messages, max_token_length>>
    /\ UNCHANGED <<handlerVars, relayVars, parserVars>>

NextRouter == GenerateRequest

SpecRouter == InitRouter /\ [][NextRouter]_vars

(***************************************************************************)
(* Claims about generate_request (specification SpecRouter)                *)
(***************************************************************************)

\* the non-system messages of the conversation, in their original order
NonSystem == SelectSeq(messages, LAMBDA m : m.role # "system")

\* the position in the conversation of the most recent non-system message
NewestPos ==
    CHOOSE i \in 1..Len(messages) :
        /\ messages[i].role # "system"
        /\ \A j \in (i + 1)..Len(messages) : messages[j].role = "system"

\* the estimate of a message: the length of its content divided by 4
EstimatedSize(m) == Len(IF m.content.some THEN m.content.val ELSE "") \div 4

\* the estimate of the template
TemplateEstimate == ARCH_ROUTER_V1_SYSTEM_PROMPT_LEN \div 4

\* the kept messages, oldest first
Kept ==
    [i \in 1..Len(selected_messages_list) |->
        messages[selected_messages_list[Len(selected_messages_list) + 1 - i]]]

RECURSIVE SumSizes(_)
SumSizes(ms) == IF ms = <<>> THEN 0 ELSE EstimatedSize(Head(ms)) + SumSizes(Tail(ms))

\* the estimated token count of the prompt
PromptEstimate == TemplateEstimate + SumSizes(Kept)

\* the kept set is exactly the single most recent non-system message
KeptIsNewestOnly ==
    /\ NonSystem # <<>>
    /\ selected_messages_list = <<NewestPos>>

\* the most recent non-system message alone exceeds the budget
NewestExceedsAlone ==
    /\ NonSystem # <<>>
    /\ TemplateEstimate + EstimatedSize(Last(NonSystem)) > max_token_length

\* C6 as stated: the estimate of the prompt does not exceed max_token_length,
\* except when the kept set is exactly the single most recent non-system
\* message, that message has role user and it alone exceeds the budget.
C6_BudgetRespected ==
    rpc = "done" =>
        \/ PromptEstimate <= max_token_length
        \/ /\ KeptIsNewestOnly
           /\ Last(NonSystem).role = "user"
           /\ NewestExceedsAlone

\* C6 as amended: the estimate does not exceed max_token_length, except
\* (a) when the kept set is exactly the single most recent non-system
\* message, of any role, and it alone exceeds the budget; (b) when the oldest
\* kept message has role user and is the message at which the running total
\* first exceeded the budget, at any depth of the walk, so that the estimate
\* without it is within the budget; (c) when the conversation has no
\* non-system message and the template alone exceeds the budget.
C6_BudgetRespectedUpToOverflowingMessage ==
    rpc = "done" =>
        \/ PromptEstimate <= max_token_length
        \/ /\ KeptIsNewestOnly
           /\ NewestExceedsAlone
        \/ /\ Len(Kept) >= 2
           /\ Kept[1].role = "user"
           /\ PromptEstimate - EstimatedSize(Kept[1]) <= max_token_length
        \/ /\ NonSystem = <<>>
           /\ Kept = <<>>
           /\ TemplateEstimate > max_token_length

C6_Witness ==
    /\ rpc = "done"
    /\ PromptEstimate > max_token_length
    /\ Len(Kept) >= 2
    /\ Kept[1].role = "user"
    /\ Len(Kept) < Len(NonSystem)

\* C7: the rendered messages are a contiguous suffix (the newest end) of the
\* non-system messages, in their original order: no message is kept while a
\* newer non-system message is dropped, and none is reordered.
C7_NewestSuffixInOrder ==
    rpc = "done" =>
        \E k \in 0..Len(NonSystem) :
            /\ conversation =
                 [i \in 1..k |-> Line(NonSystem[Len(NonSystem) - k + i])]
            /\ {selected_messages_list[i] : i \in 1..Len(selected_messages_list)} =
                 {p \in 1..Len(messages) :
                    /\ messages[p].role # "system"
                    /\ Cardinality({q \in p..Len(messages) :
                                      messages[q].role # "system"}) <= k}

C7_Witness ==
    /\ rpc = "done"
    /\ Len(conversation) = 2
    /\ Len(NonSystem) = 3
    /\ conversation[1] # conversation[2]
    /\ conversation = <<Line(NonSystem[2]), Line(NonSystem[3])>>

\* C8: no message with role system is rendered into the conversation
\* section, also when the fallback path is taken.
C8_NoSystemMessageRendered ==
    rpc = "done" =>
        /\ \A i \in 1..Len(conversation) :
              conversation[i] \notin
                  {Line([role |-> "system", content |-> c]) : c \in Contents}
        /\ \A i \in 1..Len(selected_messages_list) :
              messages[selected_messages_list[i]].role # "system"

C8_Witness ==
    /\ rpc = "done"
    /\ Len(messages) = 3
    /\ messages[1].role = "system"
    /\ messages[3].role = "system"
    /\ messages[2].role = "assistant"
    /\ NewestExceedsAlone
    /\ conversation = <<Line(messages[2])>>

\* C9: when the most recent non-system message has role user and its
\* estimate added to the template's exceeds max_token_length, the
\* conversation section holds exactly that one message.
C9_OversizedUserMessageAlone ==
    (/\ rpc = "done"
     /\ NonSystem # <<>>
     /\ Last(NonSystem).role = "user"
     /\ NewestExceedsAlone)
        => /\ conversation = <<Line(Last(NonSystem))>>
           /\ selected_messages_list = <<NewestPos>>

C9_Witness ==
    /\ rpc = "done"
    /\ Len(NonSystem) >= 2
    /\ Last(NonSystem).role = "user"
    /\ NewestExceedsAlone
    /\ TemplateEstimate <= max_token_length
    /\ conversation = <<Line(Last(NonSystem))>>

\* the walk keeps nothing: the most recent non-system message is not from
\* the user role and alone exceeds the budget
WalkKeepsNothing ==
    /\ NonSystem # <<>>
    /\ Last(NonSystem).role # "user"
    /\ NewestExceedsAlone

\* C10 as stated: when the walk keeps no message, the only message rendered
\* is the oldest available one, the earliest non-system message.
C10_FallbackToOldest ==
    (rpc = "done" /\ WalkKeepsNothing)
        => conversation = <<Line(NonSystem[1])>>

\* C10 as amended: when the walk keeps no message, the fallback takes the
\* last message of the filtered conversation, which is that same most recent
\* non-system message: it is the only message rendered.
C10_FallbackToNewest ==
    (rpc = "done" /\ WalkKeepsNothing)
        => /\ conversation = <<Line(Last(NonSystem))>>
           /\ selected_messages_list = <<NewestPos>>

C10_Witness ==
    /\ rpc = "done"
    /\ WalkKeepsNothing
    /\ Len(NonSystem) >= 2
    /\ Line(NonSystem[1]) # Line(Last(NonSystem))
    /\ conversation = <<Line(Last(NonSystem))>>

\* C11: for every conversation with at least one non-system message and
\* every max_token_length, also one below the template's own estimate, at
\* least one message is rendered.
C11_AlwaysOneMessage ==
    (rpc = "done" /\ NonSystem # <<>>)
        => /\ selected_messages_list # <<>>
           /\ conversation # <<>>

C11_Witness ==
    /\ rpc = "done"
    /\ Len(NonSystem) >= 2
    /\ max_token_length < TemplateEstimate
    /\ Last(NonSystem).role = "assistant"
    /\ Len(conversation) = 1

(***************************************************************************)
(* Further claims about chat_completion (specification Spec)               *)
(***************************************************************************)

\* C16: a request is forwarded to the provider endpoint only after its
\* routing call has returned successfully; when the routing call fails the
\* client gets status 500 and the provider endpoint is never contacted.
C16_ForwardOnlyAfterRouting ==
    /\ forwarded # <<>> =>
          /\ routeCalls = 1
          /\ route_result # None
          /\ route_result.ok
    /\ (route_result # None /\ ~route_result.ok) =>
          /\ pc = "done"
          /\ response.status = 500
          /\ forwarded = <<>>

C16_Witness ==
    /\ route_result # None
    /\ ~route_result.ok
    /\ pc = "done"
    /\ response.status = 500
    /\ forwarded = <<>>

\* the body is within the size limit and is not a chat-completion request
UndecodableBody ==
    /\ request.size_upper.some
    /\ request.size_upper.val <= 1048576
    /\ request.body = "not json"

\* C17: when the request body, within the size limit, does not decode as a
\* chat-completion request, the handler answers 400 and makes neither a
\* routing call nor a forward to the provider.
C17_BadBodyIs400 ==
    UndecodableBody =>
        /\ pc \in {"start", "collect", "decode", "done", "err"}
        /\ (pc = "done") => (parsed /\ response.status = 400)
        /\ routeCalls = 0
        /\ forwarded = <<>>

C17_Witness ==
    /\ UndecodableBody
    /\ parsed
    /\ pc = "done"
    /\ response.status = 400

\* C18: the body sent to the provider endpoint is exactly the bytes received
\* from the client, and the target is the configured endpoint whatever
\* provider was selected.
C18_BodyForwardedVerbatim ==
    \A i \in 1..Len(forwarded) :
        /\ forwarded[i].body = request.body
        /\ forwarded[i].target = "llm_provider_endpoint"

C18_Witness ==
    /\ Len(forwarded) = 1
    /\ forwarded[1].body = "{ stream : true }"
    /\ selected_llm = Some("claude")

(***************************************************************************)
(* Further claims about the streaming relay                                *)
(***************************************************************************)

\* C19: when the upstream stream yields an error after k chunks, the
\* producer stops there and takes no chunk after the error; every frame the
\* client receives is a data frame of one of the first k chunks, none is
\* synthesized; once the queue is drained the body stream can end, and when
\* it has ended the client has received exactly the first k chunks.
C19_UpstreamErrorTruncates ==
    ending = "err" =>
        /\ pulled <= errAt
        /\ errYielded => prodPc = "done"
        /\ Len(received) <= errAt
        /\ \A i \in 1..Len(received) : received[i] = FrameData(upstream[i])
        /\ streamEnded => (errYielded /\ Len(received) = errAt)
        /\ (errYielded /\ rxOpen /\ ~streamEnded /\ chan = <<>>)
              => ENABLED ClientEnd

C19_Witness ==
    /\ ending = "err"
    /\ errAt = 3
    /\ Len(upstream) > 4
    /\ streamEnded
    /\ received = [i \in 1..3 |-> FrameData(upstream[i])]

Fail == [ok |-> FALSE]

BACKSLASH_N == <<"\\", "n">>
FENCE_OPEN == <<"BQ", "BQ", "BQ", "j", "s", "o", "n">>
FENCE_CLOSE == <<"BQ", "BQ", "BQ">>

\* str::replace("'", "\"")
ReplaceSingleQuotes(text) ==
    [i \in 1..Len(text) |-> IF text[i] = "'" THEN "\"" ELSE text[i]]

\* Mutation of ReplaceSingleQuotes: the quotes are left as they are.
KeepSingleQuotes(text) == text

\* Mutation of RemoveBackslashN: every letter n is removed.
RECURSIVE RemoveLetterN(_)
RemoveLetterN(text) ==
    IF text = <<>> THEN <<>>
    ELSE IF Head(text) = "n" THEN RemoveLetterN(Tail(text))
    ELSE <<Head(text)>> \o RemoveLetterN(Tail(text))

\* str::replace("\\n", ""): one pass, left to right, over the matches of a
\* backslash followed by the letter n.
RECURSIVE RemoveBackslashN(_)
RemoveBackslashN(text) ==
    IF Len(text) < 2 THEN text
    ELSE IF SubSeq(text, 1, 2) = BACKSLASH_N
         THEN RemoveBackslashN(SubSeq(text, 3, Len(text)))
    ELSE <<Head(text)>> \o RemoveBackslashN(Tail(text))

StartsWith(text, prefix) ==
    Len(text) >= Len(prefix) /\ SubSeq(text, 1, Len(prefix)) = prefix

EndsWith(text, suffix) ==
    /\ Len(text) >= Len(suffix)
    /\ SubSeq(text, Len(text) - Len(suffix) + 1, Len(text)) = suffix

\* Mutation of StripPrefix: the prefix is left in place.
KeepPrefix(text, prefix) == text

\* str::strip_prefix(..).unwrap_or(text) under the starts_with guard
StripPrefix(text, prefix) ==
    IF StartsWith(text, prefix)
    THEN SubSeq(text, Len(prefix) + 1, Len(text))
    ELSE text

\* str::strip_suffix(..).unwrap_or(text) under the ends_with guard
StripSuffix(text, suffix) ==
    IF EndsWith(text, suffix)
    THEN SubSeq(text, 1, Len(text) - Len(suffix))
    ELSE text

\* fix_json_response: the four repairs, in the order of the code.
FixJsonResponse(body) ==
    LET quoted == ReplaceSingleQuotes(body)
        joined == RemoveBackslashN(quoted)
        opened == StripPrefix(joined, FENCE_OPEN)
    IN  StripSuffix(opened, FENCE_CLOSE)

\* ---- serde_json::from_str::<LlmRouterResponse> (line 165) ----------------
\* The decoder the derive of line 51 generates for a struct of one field
\* `route: Option<String>`, reading JSON text.
JsonWhitespace == {" ", "LF", "TAB", "CR"}
ControlCharacters == {"LF", "TAB", "CR"}
HexDigits == {"0", "1", "2", "3", "4", "5", "6", "7", "8", "9",
              "a", "b", "c", "d", "e", "f"}
Digits == {"0", "1", "2", "3", "4", "5", "6", "7", "8", "9"}
ROUTE_FIELD == <<"r", "o", "u", "t", "e">>
NULL_LITERAL == <<"n", "u", "l", "l">>

At(text, i) == IF i >= 1 /\ i <= Len(text) THEN text[i] ELSE "EOF"

RECURSIVE SkipWhitespace(_, _)
SkipWhitespace(text, i) ==
    IF At(text, i) \in JsonWhitespace THEN SkipWhitespace(text, i + 1) ELSE i

\* The character an escape letter stands for; "" when it is no escape.
Unescape(e) ==
    CASE e = "\"" -> "\""
      [] e = "\\" -> "\\"
      [] e = "/" -> "/"
      [] e = "n" -> "LF"
      [] e = "t" -> "TAB"
      [] e = "r" -> "CR"
      [] e = "b" -> "BS"
      [] e = "f" -> "FF"
      [] OTHER -> ""

\* A JSON string from the position after its opening quote: the decoded
\* characters and the position after the closing quote.
RECURSIVE ScanString(_, _, _)
ScanString(text, i, acc) ==
    LET c == At(text, i)
        e == At(text, i + 1)
    IN  CASE c = "EOF" -> Fail
          [] c = "\"" -> [ok |-> TRUE, next |-> i + 1, val |-> acc]
          [] c \in ControlCharacters -> Fail
          [] c = "\\" /\ e = "u" ->
                IF \A k \in 2..5 : At(text, i + k) \in HexDigits
                THEN ScanString(text, i + 6,
                         Append(acc, "U+" \o text[i + 2] \o text[i + 3]
                                          \o text[i + 4] \o text[i + 5]))
                ELSE Fail
          [] c = "\\" /\ e # "u" ->
                IF Unescape(e) = "" THEN Fail
                ELSE ScanString(text, i + 2, Append(acc, Unescape(e)))
          [] OTHER -> ScanString(text, i + 1, Append(acc, c))

\* Option<String>: null is None, a string is Some, anything else an error.
ParseOptionString(text, i) ==
    LET c == At(text, i)
        s == ScanString(text, i + 1, <<>>)
    IN  CASE c = "n" ->
                IF i + 3 <= Len(text) /\ SubSeq(text, i, i + 3) = NULL_LITERAL
                THEN [ok |-> TRUE, next |-> i + 4, val |-> None]
                ELSE Fail
          [] c = "\"" ->
                IF s.ok THEN [ok |-> TRUE, next |-> s.next, val |-> Some(s.val)]
                ELSE Fail
          [] OTHER -> Fail

\* The value of a field the struct does not have is read and dropped.  The
\* texts of this model give such a field a string, null or a digit.
SkipValue(text, i) ==
    LET c == At(text, i)
        s == ScanString(text, i + 1, <<>>)
    IN  CASE c = "\"" -> IF s.ok THEN [ok |-> TRUE, next |-> s.next] ELSE Fail
          [] c = "n" ->
                IF i + 3 <= Len(text) /\ SubSeq(text, i, i + 3) = NULL_LITERAL
                THEN [ok |-> TRUE, next |-> i + 4]
                ELSE Fail
          [] c \in Digits -> [ok |-> TRUE, next |-> i + 1]
          [] OTHER -> Fail

\* The members of an object from the opening quote of a key: the route
\* field is decoded, a second route field is an error, other fields are
\* skipped; a missing route is None.
RECURSIVE ParseMembers(_, _, _, _)
ParseMembers(text, i, seen, route) ==
    LET key == ScanString(text, i + 1, <<>>)
        colon == SkipWhitespace(text, key.next)
        start == SkipWhitespace(text, colon + 1)
        isRoute == key.val = ROUTE_FIELD
        value == IF isRoute THEN ParseOptionString(text, start)
                 ELSE SkipValue(text, start)
        after == SkipWhitespace(text, value.next)
        route2 == IF isRoute THEN value.val ELSE route
    IN  IF At(text, i) # "\"" THEN Fail
        ELSE IF ~key.ok THEN Fail
        ELSE IF At(text, colon) # ":" THEN Fail
        ELSE IF isRoute /\ seen THEN Fail
        ELSE IF ~value.ok THEN Fail
        ELSE IF At(text, after) = "}"
             THEN [ok |-> TRUE, next |-> after + 1, val |-> route2]
        ELSE IF At(text, after) = ","
             THEN ParseMembers(text, SkipWhitespace(text, after + 1),
                               seen \/ isRoute, route2)
        ELSE Fail

\* A struct is read from a JSON object by field name, or from a JSON array
\* by position; the whole text must be consumed.
FromStr(text) ==
    LET i == SkipWhitespace(text, 1)
        first == SkipWhitespace(text, i + 1)
        element == ParseOptionString(text, first)
        close == SkipWhitespace(text, element.next)
        v == CASE At(text, i) = "{" ->
                    IF At(text, first) = "}"
                    THEN [ok |-> TRUE, next |-> first + 1, val |-> None]
                    ELSE ParseMembers(text, first, FALSE, None)
               [] At(text, i) = "[" ->
                    IF ~element.ok THEN Fail
                    ELSE IF At(text, close) = "]"
                         THEN [ok |-> TRUE, next |-> close + 1,
                               val |-> element.val]
                    ELSE Fail
               [] OTHER -> Fail
    IN  IF v.ok /\ SkipWhitespace(text, v.next) = Len(text) + 1
        THEN [ok |-> TRUE, route |-> v.val]
        ELSE Fail

\* ---- parse_response ------------------------------------------------------
Ok(v) == [ok |-> TRUE, value |-> v]

\* Mutation of DecodeFailure: a text that does not decode is "no route".
DecodeFailureIsNone == Ok(None)

\* the `?` of line 165: the decoder's error is returned
DecodeFailure == Fail

\* Option<String>::unwrap_or_default
UnwrapOrDefault(opt) == IF opt.some THEN opt.val ELSE <<>>

\* Mutation of NonEmptyRoute: an empty identifier is returned as a route.
AnyRoute(selected) == Ok(Some(selected))

\* lines 169-173
NonEmptyRoute(selected) ==
    IF selected = <<>> THEN Ok(None) ELSE Ok(Some(selected))

ParseResponse(text) ==
    IF text = <<>> THEN Ok(None)
    ELSE LET router_resp_fixed == FixJsonResponse(text)
             router_response == FromStr(router_resp_fixed)
         IN  IF ~router_response.ok THEN DecodeFailure
             ELSE NonEmptyRoute(UnwrapOrDefault(router_response.route))

\* ---- the texts parse_response is called with -----------------------------
MaxRouteLen == 2

RouteIdChars == {"a", "n", "'", "\\", "LF", "\""}
RouteIds == UNION {[1..n -> RouteIdChars] : n \in 0..MaxRouteLen}

\* serde_json's string escaping of one character
EscapeChar(c) ==
    CASE c = "\"" -> <<"\\", "\"">>
      [] c = "\\" -> <<"\\", "\\">>
      [] c = "LF" -> <<"\\", "n">>
      [] OTHER -> <<c>>

RECURSIVE EscapeString(_)
EscapeString(s) ==
    IF s = <<>> THEN <<>> ELSE EscapeChar(Head(s)) \o EscapeString(Tail(s))

JsonValue(route) ==
    IF route.some THEN <<"\"">> \o EscapeString(route.val) \o <<"\"">>
    ELSE NULL_LITERAL

\* serde_json::to_string(&LlmRouterResponse { route }): {"route":...}
SerializeRoute(route) ==
    <<"{", "\"">> \o ROUTE_FIELD \o <<"\"", ":">> \o JsonValue(route)
        \o <<"}">>

\* The same object as the repository's tests write it: {"route": ...}
SpacedRoute(route) ==
    <<"{", "\"">> \o ROUTE_FIELD \o <<"\"", ":", " ">> \o JsonValue(route)
        \o <<"}">>

EMPTY_OBJECT == <<"{", "}">>

WellFormedTexts ==
    {SerializeRoute(Some(x)) : x \in RouteIds}
        \cup {SerializeRoute(None), EMPTY_OBJECT,
              <<"{", "\"", "x", "\"", ":", "5", "}">>,
              SpacedRoute(Some(<<"a">>)), SpacedRoute(Some(<<>>)),
              SpacedRoute(None),
              <<"{", "\"", "x", "\"", ":", "5", ",", "\"">> \o ROUTE_FIELD
                  \o <<"\"", ":", "\"", "a", "\"", "}">>}

\* The three ways a model's reply differs from the clean text.
SingleQuoted(text) ==
    [i \in 1..Len(text) |-> IF text[i] = "\"" THEN "'" ELSE text[i]]

WithBackslashN(text, p) ==
    SubSeq(text, 1, p) \o BACKSLASH_N \o SubSeq(text, p + 1, Len(text))

Fenced(text) == FENCE_OPEN \o text \o FENCE_CLOSE

FencedOnLines(text) == FENCE_OPEN \o <<"LF">> \o text \o <<"LF">> \o FENCE_CLOSE

\* JSON, or no JSON, that is not a route object.
OtherTexts ==
    {<<"[", "]">>, <<"[", "\"", "a", "\"", ",", "\"", "a", "\"", "]">>,
     <<"5">>, <<"\"", "a", "\"">>, <<"{", "}", "a">>, <<"a">>,
     <<"{", "\"">> \o ROUTE_FIELD \o <<"\"", ":", "5", "}">>,
     <<"{", "\"">> \o ROUTE_FIELD \o <<"\"", ":", "\"", "a", "\"", ",", "}">>,
     SerializeRoute(Some(<<"a">>)) \o SerializeRoute(Some(<<"a">>)),
     Fenced(<<>>)}

ArraysOfOne == {<<"[", "\"", "a", "\"", "]">>, <<"[">> \o NULL_LITERAL \o <<"]">>}

ParseInput(text, from, way, id) ==
    [content |-> text, reference |-> from, how |-> way, route_id |-> id]

ParseInputs ==
    {ParseInput(<<>>, <<>>, "empty", <<>>)}
        \cup {ParseInput(SerializeRoute(Some(x)), SerializeRoute(Some(x)),
                         "serialized", x) : x \in RouteIds}
        \cup {ParseInput(t, t, "well formed", <<>>) : t \in WellFormedTexts}
        \cup {ParseInput(SingleQuoted(t), t, "single quotes", <<>>) :
                  t \in WellFormedTexts}
        \cup UNION {{ParseInput(WithBackslashN(t, p), t, "backslash n", <<>>) :
                        p \in 0..Len(t)} : t \in WellFormedTexts}
        \cup {ParseInput(Fenced(t), t, "fenced", <<>>) : t \in WellFormedTexts}
        \cup {ParseInput(FencedOnLines(t), t, "fenced", <<>>) :
                  t \in WellFormedTexts}
        \cup UNION {{ParseInput(SubSeq(t, 1, k), t, "truncated", <<>>) :
                        k \in 1..(Len(t) - 1)} : t \in WellFormedTexts}
        \cup {ParseInput(t, t, "other text", <<>>) : t \in OtherTexts}
        \cup {ParseInput(t, t, "array of one", <<>>) : t \in ArraysOfOne}

InitParse ==
    /\ HandlerIdle
    /\ RelayIdle
    /\ RouterIdle
    /\ \E input \in ParseInputs :
          /\ raw_content = input.content
          /\ reference = input.reference
          /\ how = input.how
          /\ route_id = input.route_id
    /\ ppc = "call"
    /\ parse_result = None
    /\ reference_result = None

\* parse_response(content)
ParseContent ==
    /\ ppc = "call"
    /\ parse_result' = ParseResponse(raw_content)
    /\ ppc' = "reference"
    /\ UNCHANGED <<raw_content, reference, how, route_id, reference_result>>
    /\ UNCHANGED <<handlerVars, relayVars, routerVars>>

\* parse_response of the text the content was written from
ParseReference ==
    /\ ppc = "reference"
    /\ reference_result' = ParseResponse(reference)
    /\ ppc' = "done"
    /\ UNCHANGED <<raw_content, reference, how, route_id, parse_result>>
    /\ UNCHANGED <<handlerVars, relayVars, routerVars>>

NextParse == ParseContent \/ ParseReference

SpecParse == InitParse /\ [][NextParse]_vars

\* ======================================================================
\* Properties of parse_response
\* ======================================================================
Parsed == ppc \in {"reference", "done"}

\* Empty input, an object with no route field, route null and route "".
NoRouteTexts ==
    {<<>>, EMPTY_OBJECT, <<"{", "\"", "x", "\"", ":", "5", "}">>,
     SerializeRoute(None), SpacedRoute(None),
     SerializeRoute(Some(<<>>)), SpacedRoute(Some(<<>>))}

\* C12: parse_response returns Ok(None), never an error and never Some(""),
\* for empty input, for an object with no route field, for route null and
\* for route equal to the empty string; any Some(value) it returns has a
\* non-empty value.
C12_NoRouteIsOkNone ==
    Parsed =>
        /\ raw_content \in NoRouteTexts => parse_result = Ok(None)
        /\ (parse_result.ok /\ parse_result.value.some)
              => parse_result.value.val # <<>>

C12_Witness ==
    /\ ppc = "done"
    /\ raw_content = SerializeRoute(Some(<<>>))
    /\ parse_result = Ok(None)

\* A text holds a backslash directly followed by the letter n.
HasBackslashN(text) ==
    \E i \in 1..(Len(text) - 1) : SubSeq(text, i, i + 1) = BACKSLASH_N

\* An identifier the repair pass leaves alone once it is serialized: no
\* single quote, no newline, no backslash directly followed by n.
RepairProof(x) ==
    /\ \A i \in 1..Len(x) : x[i] \notin {"'", "LF"}
    /\ ~HasBackslashN(x)

\* C13 (as stated): for every non-empty route identifier x, parse_response
\* applied to the JSON serialization of the object {"route": x} yields
\* Ok(Some(x)) with x unchanged.
C13_SerializedRoundTrip ==
    (Parsed /\ how = "serialized" /\ route_id # <<>>)
        => parse_result = Ok(Some(route_id))

\* C13 (amended): the round trip holds for every non-empty route identifier
\* that holds no single quote, no newline and no backslash directly
\* followed by n.
C13_RepairProofRoundTrip ==
    (Parsed /\ how = "serialized" /\ route_id # <<>> /\ RepairProof(route_id))
        => parse_result = Ok(Some(route_id))

C13_Witness ==
    /\ ppc = "done"
    /\ how = "serialized"
    /\ route_id = <<"n", "\"">>
    /\ parse_result = Ok(Some(route_id))

Rewritten == how \in {"single quotes", "backslash n", "fenced"}

\* The backslash-n was added between a backslash and a letter n that the
\* reference text already holds next to each other.
SplitsBackslashN ==
    /\ how = "backslash n"
    /\ \E p \in 1..(Len(reference) - 1) :
          /\ SubSeq(reference, p, p + 1) = BACKSLASH_N
          /\ raw_content = WithBackslashN(reference, p)

\* C14 (as stated): for every well-formed route object text t,
\* parse_response gives the same result as for t when t is written with
\* single quotes, when backslash-n sequences are added to it, and when it
\* is wrapped in the code-fence markers.
C14_RepairTransparent ==
    (ppc = "done" /\ Rewritten) => parse_result = reference_result

\* C14 (amended): the same, except when the backslash-n is added between a
\* backslash and a letter n of the text itself.
C14_RepairTransparentUnlessSplit ==
    (ppc = "done" /\ Rewritten /\ ~SplitsBackslashN)
        => parse_result = reference_result

C14_Witness ==
    /\ ppc = "done"
    /\ how = "backslash n"
    /\ reference = SerializeRoute(Some(<<"a", "n">>))
    /\ raw_content = WithBackslashN(reference, 11)
    /\ parse_result = Ok(Some(<<"a", "n">>))
    /\ reference_result = parse_result

\* C15 (as stated): when the text left after the repair pass is not a
\* well-formed JSON route object (a truncated object, JSON of another
\* shape, text that is no JSON), parse_response returns an error, never
\* Ok(None) and never Ok(Some(route)).
C15_NotRouteObjectIsError ==
    (Parsed /\ how \in {"truncated", "other text", "array of one"})
        => parse_result = Fail

\* C15 (amended): the same for every such text but a JSON array of exactly
\* one element that is a string or null, which decodes as the struct's one
\* field.
C15_NotRouteObjectNorArrayOfOneIsError ==
    (Parsed /\ how \in {"truncated", "other text"}) => parse_result = Fail

C15_Witness ==
    /\ ppc = "done"
    /\ how = "truncated"
    /\ reference = SpacedRoute(Some(<<"a">>))
    /\ raw_content = SubSeq(reference, 1, Len(reference) - 1)
    /\ parse_result = Fail

(***************************************************************************)
(* Further claims about chat_completion (specification Spec)               *)
(***************************************************************************)

\* C21: for every request and every outcome of each stage, chat_completion
\* ends by returning an HTTP response with a status code and a diagnostic
\* body: the handler never leaves through a bare error (pc = "err") or a
\* panic (pc = "panic"), and where it has ended a response is there.
C21_AlwaysAResponse ==
    /\ pc \notin {"err", "panic"}
    /\ pc = "done" =>
          /\ response # None
          /\ response.status \in {200, 400, 413, 500}
          /\ response.body # ""

(***************************************************************************)
(* Further claims about generate_request (specification SpecRouter)        *)
(***************************************************************************)

\* the running total once the walk has counted the message at depth d
\* (depth 0 is the most recent non-system message)
RunningTotal(d) ==
    TemplateEstimate
        + SumSizes(SubSeq(NonSystem, Len(NonSystem) - d, Len(NonSystem)))

Overflows == \E d \in 0..(Len(NonSystem) - 1) : RunningTotal(d) > max_token_length

\* the depth of the first message that makes the total exceed the budget
OverflowDepth ==
    CHOOSE d \in 0..(Len(NonSystem) - 1) :
        /\ RunningTotal(d) > max_token_length
        /\ \A e \in 0..(d - 1) : RunningTotal(e) <= max_token_length

OverflowMessage == NonSystem[Len(NonSystem) - OverflowDepth]

\* the messages the walk kept, oldest first
WalkKept ==
    [i \in 1..Len(walk_selected) |->
        messages[walk_selected[Len(walk_selected) + 1 - i]]]

\* C22: in the newest-to-oldest walk, the first message whose estimated size
\* makes the running total exceed max_token_length ends the walk at any
\* depth: it is kept if and only if its role is user, every newer message
\* is kept, and no older message is kept.  Below depth 0 the walk has kept
\* a message, and its list is the final one.
C22_OverflowEndsWalk ==
    (rpc = "done" /\ Overflows) =>
        /\ WalkKept =
              SubSeq(NonSystem,
                     IF OverflowMessage.role = "user"
                     THEN Len(NonSystem) - OverflowDepth
                     ELSE Len(NonSystem) - OverflowDepth + 1,
                     Len(NonSystem))
        /\ OverflowDepth >= 1 => selected_messages_list = walk_selected

C22_Witness ==
    /\ rpc = "done"
    /\ Overflows
    /\ OverflowDepth = 1
    /\ Len(NonSystem) = 3
    /\ OverflowMessage.role = "user"
    /\ Len(WalkKept) = 2
    /\ WalkKept[1] = OverflowMessage

\* the walk at depth 1 ending on a message that is not the user's
C22_WitnessDropped ==
    /\ rpc = "done"
    /\ Overflows
    /\ OverflowDepth = 1
    /\ Len(NonSystem) = 3
    /\ OverflowMessage.role = "assistant"
    /\ Len(WalkKept) = 1

(***************************************************************************)
(* Further claims about the relayed response (specification Spec)          *)
(***************************************************************************)

\* the handler has ended by relaying the upstream response
Relayed ==
    /\ pc = "done"
    /\ llm_response # None
    /\ response.body \in {"stream", llm_response.body}

\* C23: every header (name, value) pair of the upstream response is present
\* in the response returned to the client, including every value of a
\* header name that the upstream response repeats.
C23_EveryUpstreamHeaderCopied ==
    Relayed =>
        \A n \in HeaderNames :
            \A i \in 1..Len(llm_response.headers[n]) :
                \E j \in 1..Len(response.headers[n]) :
                    response.headers[n][j] = llm_response.headers[n][i]

Answered413 == response # None /\ response.status = 413

\* C24: chat_completion answers 413 if and only if the body's size-hint
\* upper bound is absent or strictly greater than 1048576: an upper bound
\* of exactly 1048576 passes the size check, and a request with no upper
\* bound is rejected with 413.
C24_Exactly413 ==
    pc # "start" =>
        (Answered413 <=>
            (~request.size_upper.some \/ request.size_upper.val > 1048576))

C24_Witness ==
    /\ pc = "done"
    /\ ~request.size_upper.some
    /\ Answered413
    /\ chat_request_bytes = None

\* an upper bound of exactly 1 MiB goes on to the body read
C24_WitnessAtCeiling ==
    /\ request.size_upper = Some(1048576)
    /\ pc = "decode"
    /\ response = None

(***************************************************************************)
(* Termination of the streaming relay (specification SpecRelayLive)        *)
(***************************************************************************)

\* the stream the client sees has ended, the task has ended, and every chunk
\* the task pushed has been delivered
RelayComplete ==
    /\ streamEnded
    /\ prodPc = "done"
    /\ chan = <<>>
    /\ ~item.some
    /\ received = [i \in 1..pulled |-> FrameData(upstream[i])]

\* C25: if the upstream stream ends (normally or by error) and the client
\* keeps reading (it never disconnects), then every chunk the producer
\* pushed into the channel is eventually delivered, the producer task
\* terminates and the client-visible stream eventually ends.
C25_RelayEnds == <>(~rxOpen \/ RelayComplete)

C25_Witness ==
    /\ RelayComplete
    /\ rxOpen
    /\ ending = "eof"
    /\ Len(upstream) = CHANNEL_CAPACITY + 2
    /\ pulled = Len(upstream)

====
